---- MODULE Spec2Model ----
(***************************************************************************)
(* Model of padlock-cloud's server.go: the three leveldb databases (data,  *)
(* auth, act), the handlers RequestApiKey, ActivateApiKey, Auth,           *)
(* InjectBody, GetData and PutData, and the AuthAccount methods.           *)
(*                                                                         *)
(* Strings are sequences of symbols.  The symbol "xFF" stands for a byte   *)
(* that is not valid UTF-8 and "uFFFD" for the replacement character that  *)
(* encoding/json writes in its place; "ApiKey " is the literal of the      *)
(* Authorization pattern, kept as one symbol.                              *)
(*                                                                         *)
(* Every martini request runs in its own goroutine, so a handler is a      *)
(* process whose steps are cut at its database calls; each leveldb call is *)
(* atomic and may fail with an I/O error, in which case it changes nothing.*)
(***************************************************************************)
EXTENDS Integers, Sequences, FiniteSets, TLC

\* ---------------------------------------------------------------- bounds
MaxTokens == 2          \* RequestApiKey calls explored by Spec and SpecConcurrent
MaxSeqTokens == 3       \* RequestApiKey calls explored by SpecSequential
MaxActivators == 2      \* concurrent GET /activate/:token requests
MaxClients == 1         \* concurrent GET / and PUT / requests

\* ---------------------------------------------------------------- inputs
Emails == {<<"a">>, <<"xFF">>}          \* form field "email"
Devices == {<<"p">>, <<"q">>}           \* form field "device_name"
\* the forms posted to /auth
Forms == {<<<<"a">>, <<"p">>>>, <<<<"a">>, <<"q">>>>, <<<<"xFF">>, <<"p">>>>}
Blobs == {<<"v1">>, <<"v2">>}           \* request bodies of PUT /
Activators == 1..MaxActivators
Clients == 1..MaxClients

\* http status codes
StatusOK == 200
StatusUnauthorized == 401
StatusNotFound == 404
StatusInternalServerError == 500

\* ------------------------------------------------------------ uuid
\* The i-th value produced by uuid(): sixteen random bytes are modelled as
\* a value that differs from every value produced before.
UuidNames == <<"u1", "u2", "u3", "u4", "u5", "u6", "u7", "u8", "u9", "u10">>
uuid(i) == <<UuidNames[i]>>

\* ------------------------------------------------------------ encoding/json
\* json.Marshal coerces a string to valid UTF-8: every invalid byte becomes
\* U+FFFD.
Coerce(s) == [i \in 1..Len(s) |-> IF s[i] = "xFF" THEN "uFFFD" ELSE s[i]]

\* ApiKey{} and AuthAccount{}
ZeroApiKey == [Email |-> <<>>, DeviceName |-> <<>>, Key |-> <<>>]
ZeroAccount == [Email |-> <<>>, ApiKeys |-> <<>>]

MarshalApiKey(k) ==
    [email |-> Coerce(k.Email),
     device_name |-> Coerce(k.DeviceName),
     key |-> Coerce(k.Key)]

UnmarshalApiKey(j) ==
    [Email |-> j.email, DeviceName |-> j.device_name, Key |-> j.key]

MarshalAccount(a) ==
    [Email |-> Coerce(a.Email),
     ApiKeys |-> [i \in 1..Len(a.ApiKeys) |-> MarshalApiKey(a.ApiKeys[i])]]

UnmarshalAccount(j) ==
    [Email |-> j.Email,
     ApiKeys |-> [i \in 1..Len(j.ApiKeys) |-> UnmarshalApiKey(j.ApiKeys[i])]]

\* ------------------------------------------------------------ leveldb
\* A database is a function from the keys it holds to their values.
Has(db, k) == k \in DOMAIN db
DbPut(db, k, v) == [x \in (DOMAIN db) \cup {k} |-> IF x = k THEN v ELSE db[x]]
DbDelete(db, k) == [x \in (DOMAIN db) \ {k} |-> db[x]]
EmptyDb == [x \in {} |-> <<>>]

\* ------------------------------------------------------------ AuthAccount
\* Index of the first api key with the given device name, 0 if none.
FirstIndexForDevice(a, deviceName) ==
    IF \E i \in 1..Len(a.ApiKeys) : a.ApiKeys[i].DeviceName = deviceName
    THEN CHOOSE i \in 1..Len(a.ApiKeys) :
            /\ a.ApiKeys[i].DeviceName = deviceName
            /\ \A j \in 1..(i - 1) : a.ApiKeys[j].DeviceName # deviceName
    ELSE 0

\* a variant that drops the last key whenever the device has one
RemoveLastKey(a, deviceName) ==
    IF FirstIndexForDevice(a, deviceName) = 0 THEN a
    ELSE [a EXCEPT !.ApiKeys = SubSeq(a.ApiKeys, 1, Len(a.ApiKeys) - 1)]

\* a variant that drops the first key whenever the device has one
RemoveFirstKey(a, deviceName) ==
    IF FirstIndexForDevice(a, deviceName) = 0 THEN a
    ELSE [a EXCEPT !.ApiKeys = Tail(a.ApiKeys)]

RemoveKeyForDevice(a, deviceName) ==
    LET i == FirstIndexForDevice(a, deviceName) IN
    IF i = 0 THEN a
    ELSE [a EXCEPT !.ApiKeys =
            SubSeq(a.ApiKeys, 1, i - 1) \o SubSeq(a.ApiKeys, i + 1, Len(a.ApiKeys))]

\* a variant that appends without removing
SetKeyNoRemove(a, apiKey) == [a EXCEPT !.ApiKeys = Append(a.ApiKeys, apiKey)]

SetKey(a, apiKey) ==
    LET r == RemoveKeyForDevice(a, apiKey.DeviceName) IN
    [r EXCEPT !.ApiKeys = Append(r.ApiKeys, apiKey)]

\* a variant that accepts every key
ValidateAlways(a, key) == TRUE

Validate(a, key) == \E i \in 1..Len(a.ApiKeys) : a.ApiKeys[i].Key = key

\* ------------------------------------------------------------ Auth pattern
\* regexp "ApiKey (?P<email>.+):(?P<key>.+)" applied with MatchString and
\* FindStringSubmatch: the match is searched anywhere in the header, the
\* leftmost start wins, and both groups are greedy.
MatchStarts(h) ==
    {i \in 1..Len(h) : /\ h[i] = "ApiKey "
                       /\ \E j \in (i + 2)..(Len(h) - 1) : h[j] = ":"}

MatchString(h) == MatchStarts(h) # {}

Min(S) == CHOOSE x \in S : \A y \in S : x <= y
Max(S) == CHOOSE x \in S : \A y \in S : x >= y

\* <<email, key>>, the submatches 1 and 2
FindStringSubmatch(h) ==
    LET i == Min(MatchStarts(h))
        j == Max({c \in (i + 2)..(Len(h) - 1) : h[c] = ":"})
    IN  <<SubSeq(h, i + 1, j - 1), SubSeq(h, j + 1, Len(h))>>

\* ------------------------------------------------------------ state
VARIABLES
    data,       \* DataDB: email -> blob
    auth,       \* AuthDB: email -> JSON of the AuthAccount
    pending,    \* ActDB: token -> JSON of the unactivated ApiKey
    nextUuid,   \* number of values uuid() has produced
    issued,     \* history: token -> body returned by RequestApiKey
    activated,  \* history: tokens whose entry an ActivateApiKey has read
    savedOk,    \* history: tokens whose merged account has been saved
    okTokens,   \* history: tokens whose ActivateApiKey returned 200
    lastPut,    \* history: email -> body of the last PutData that returned 200
    act,        \* the ActivateApiKey requests
    cl          \* the GET / and PUT / requests

stores == <<data, auth, pending>>
history == <<issued, activated, savedOk, okTokens, lastPut>>
vars == <<data, auth, pending, nextUuid, issued, activated, savedOk, okTokens,
          lastPut, act, cl>>

IdleAct ==
    [pc |-> "idle", token |-> <<>>, apiKey |-> ZeroApiKey, acc |-> ZeroAccount,
     err |-> FALSE, status |-> 0, body |-> <<>>]

IdleClient ==
    [pc |-> "idle", hdr |-> <<>>, acc |-> ZeroAccount, rb |-> <<>>,
     status |-> 0, body |-> <<>>]

Init ==
    /\ data = EmptyDb
    /\ auth = EmptyDb
    /\ pending = EmptyDb
    /\ nextUuid = 0
    /\ issued = EmptyDb
    /\ activated = {}
    /\ savedOk = {}
    /\ okTokens = {}
    /\ lastPut = EmptyDb
    /\ act = [p \in Activators |-> IdleAct]
    /\ cl = [c \in Clients |-> IdleClient]

\* ------------------------------------------------------------ POST /auth
\* RequestApiKey: two uuid() calls, the put of the pair into the act
\* database (its error is dropped) and the 200 response with the JSON.
RequestApiKey(email, deviceName) ==
    /\ nextUuid + 2 <= Len(UuidNames)
    /\ LET key == uuid(nextUuid + 1)
           token == uuid(nextUuid + 2)
           apiKey == [Email |-> email, DeviceName |-> deviceName, Key |-> key]
           json == MarshalApiKey(apiKey)
       IN  /\ \E ioerr \in BOOLEAN :
                pending' = IF ioerr THEN pending ELSE DbPut(pending, token, json)
           /\ issued' = DbPut(issued, token, json)
    /\ nextUuid' = nextUuid + 2
    /\ UNCHANGED <<data, auth, activated, savedOk, okTokens, lastPut, act, cl>>

\* ------------------------------------------------------------ GET /activate/:token
\* Tokens a request may carry: every uuid produced so far (tokens and keys
\* alike) and one string that uuid() never produced.
RequestTokens == {uuid(i) : i \in 1..nextUuid} \cup {<<"zz">>}

\* The response of a handler: the request is over, its locals are gone.
Reply(status, body) == [IdleAct EXCEPT !.pc = "done", !.status = status, !.body = body]

\* a variant that goes on with an empty ApiKey when the token has no entry
ActivateLookupIgnoreErr(p, token) ==
    /\ act[p].pc \in {"idle", "done"}
    /\ act' = [act EXCEPT ![p] =
            [IdleAct EXCEPT !.pc = "fetch", !.token = token,
                            !.apiKey = IF Has(pending, token)
                                       THEN UnmarshalApiKey(pending[token])
                                       ELSE ZeroApiKey]]
    /\ activated' = activated \cup {token}
    /\ UNCHANGED <<data, auth, pending, nextUuid, issued, savedOk, okTokens, lastPut, cl>>

\* lines 252-265: read the entry of the token
ActivateLookup(p, token) ==
    /\ act[p].pc \in {"idle", "done"}
    /\ \E ioerr \in BOOLEAN :
        IF ioerr \/ ~Has(pending, token)
        THEN /\ act' = [act EXCEPT ![p] = Reply(StatusNotFound, <<"Token not valid">>)]
             /\ UNCHANGED activated
        ELSE /\ act' = [act EXCEPT ![p] =
                    [IdleAct EXCEPT !.pc = "fetch", !.token = token,
                                    !.apiKey = UnmarshalApiKey(pending[token])]]
             /\ activated' = activated \cup {token}
    /\ UNCHANGED <<data, auth, pending, nextUuid, issued, savedOk, okTokens, lastPut, cl>>

\* a variant that creates the new account without setting its email
ActivateFetchNoEmail(p) ==
    /\ act[p].pc = "fetch"
    /\ LET r == act[p]
           email == r.apiKey.Email
       IN  \E ioerr \in BOOLEAN :
            act' = [act EXCEPT ![p] =
                IF ioerr
                THEN Reply(StatusInternalServerError, <<"Database error">>)
                ELSE IF ~Has(auth, email)
                THEN [r EXCEPT !.pc = "save", !.acc = ZeroAccount]
                ELSE [r EXCEPT !.pc = "save",
                               !.acc = UnmarshalAccount(auth[email])]]
    /\ UNCHANGED <<data, auth, pending, nextUuid, history, cl>>

\* lines 267-278: fetch the account or create one
ActivateFetch(p) ==
    /\ act[p].pc = "fetch"
    /\ LET r == act[p]
           email == r.apiKey.Email
       IN  \E ioerr \in BOOLEAN :
            act' = [act EXCEPT ![p] =
                IF ioerr
                THEN Reply(StatusInternalServerError, <<"Database error">>)
                ELSE IF ~Has(auth, email)
                THEN [r EXCEPT !.pc = "save",
                               !.acc = [ZeroAccount EXCEPT !.Email = email]]
                ELSE [r EXCEPT !.pc = "save",
                               !.acc = UnmarshalAccount(auth[email])]]
    /\ UNCHANGED <<data, auth, pending, nextUuid, history, cl>>

\* lines 280-284: merge the key and save the account
ActivateSave(p) ==
    /\ act[p].pc = "save"
    /\ LET r == act[p]
           acc == SetKey(r.acc, r.apiKey)
       IN  \E ioerr \in BOOLEAN :
            /\ auth' = IF ioerr THEN auth
                       ELSE DbPut(auth, acc.Email, MarshalAccount(acc))
            /\ savedOk' = IF ioerr THEN savedOk ELSE savedOk \cup {r.token}
            /\ act' = [act EXCEPT ![p] =
                    [r EXCEPT !.pc = "delete", !.acc = ZeroAccount, !.err = ioerr]]
    /\ UNCHANGED <<data, pending, nextUuid, issued, activated, okTokens, lastPut, cl>>

\* a variant that sweeps every pending entry when it deletes the token's
ActivateDeleteSweep(p) ==
    /\ act[p].pc = "delete"
    /\ LET r == act[p] IN
       \E ioerr \in BOOLEAN :
            /\ pending' = IF ioerr THEN pending ELSE EmptyDb
            /\ okTokens' = IF ioerr THEN okTokens ELSE okTokens \cup {r.token}
            /\ act' = [act EXCEPT ![p] =
                    IF ioerr
                    THEN Reply(StatusInternalServerError, <<"Database error">>)
                    ELSE Reply(StatusOK, <<"activated">> \o r.apiKey.DeviceName)]
    /\ UNCHANGED <<data, auth, nextUuid, issued, activated, savedOk, lastPut, cl>>

\* a variant that deletes the entry under the key of the api key, not under
\* the token
ActivateDeleteByKey(p) ==
    /\ act[p].pc = "delete"
    /\ LET r == act[p] IN
       \E ioerr \in BOOLEAN :
            /\ pending' = IF ioerr THEN pending ELSE DbDelete(pending, r.apiKey.Key)
            /\ okTokens' = IF ioerr THEN okTokens ELSE okTokens \cup {r.token}
            /\ act' = [act EXCEPT ![p] =
                    IF ioerr
                    THEN Reply(StatusInternalServerError, <<"Database error">>)
                    ELSE Reply(StatusOK, <<"activated">> \o r.apiKey.DeviceName)]
    /\ UNCHANGED <<data, auth, nextUuid, issued, activated, savedOk, lastPut, cl>>

\* lines 286-293: delete the entry of the token and answer; err is
\* overwritten by the result of the delete
ActivateDelete(p) ==
    /\ act[p].pc = "delete"
    /\ LET r == act[p] IN
       \E ioerr \in BOOLEAN :
            /\ pending' = IF ioerr THEN pending ELSE DbDelete(pending, r.token)
            /\ okTokens' = IF ioerr THEN okTokens ELSE okTokens \cup {r.token}
            /\ act' = [act EXCEPT ![p] =
                    IF ioerr
                    THEN Reply(StatusInternalServerError, <<"Database error">>)
                    ELSE Reply(StatusOK, <<"activated">> \o r.apiKey.DeviceName)]
    /\ UNCHANGED <<data, auth, nextUuid, issued, activated, savedOk, lastPut, cl>>

\* ------------------------------------------------------------ GET / and PUT /
\* Authorization headers a request may carry.
HeaderEmails == Emails \cup {Coerce(e) : e \in Emails}
HeaderKeys == {uuid(i) : i \in {j \in 1..nextUuid : j % 2 = 1}} \cup {<<"zz">>}
WellFormed == {<<"ApiKey ">> \o e \o <<":">> \o k : e \in HeaderEmails, k \in HeaderKeys}
Headers ==
    WellFormed
    \cup {<<"x">> \o h : h \in WellFormed}
    \cup {<<>>, <<"ApiKey ">>, <<"ApiKey ", "a", "zz">>, <<"ApiKey ", "a", ":">>,
          <<"ApiKey ", ":", "zz">>, <<"Bearer ", "a", ":", "zz">>,
          <<"ApiKey ", "a", ":", ":", "zz">>}

Respond(status, body) ==
    [IdleClient EXCEPT !.pc = "done", !.status = status, !.body = body]

\* lines 174-207: the Auth middleware of the routes GET / and PUT /; martini
\* runs the next handler of the route only if Auth has written no response.
\* Auth does not read the method, so the route shows in the step that
\* follows: GetData for GET /, InjectBody for PUT /.
\* lines 184-206: what Auth does for a header that matches the pattern;
\* ioerr says whether the read of the auth database fails
AuthOutcome(h, ioerr) ==
    LET email == FindStringSubmatch(h)[1]
        key == FindStringSubmatch(h)[2]
    IN  IF ioerr
        THEN Respond(StatusInternalServerError, <<"Database error">>)
        ELSE IF ~Has(auth, email)
        THEN Respond(StatusUnauthorized, <<"User">> \o email \o <<"does not exists">>)
        ELSE IF ~Validate(UnmarshalAccount(auth[email]), key)
        THEN Respond(StatusUnauthorized, <<"The provided key was not valid">>)
        ELSE [IdleClient EXCEPT !.pc = "authenticated", !.hdr = h,
                                !.acc = UnmarshalAccount(auth[email])]

\* a variant that stores an empty account for an email that has none
AuthAutoCreate(c, h) ==
    /\ cl[c].pc \in {"idle", "done"}
    /\ IF ~MatchString(h)
       THEN /\ cl' = [cl EXCEPT ![c] =
                Respond(StatusUnauthorized, <<"No valid authorization header provided">>)]
            /\ UNCHANGED auth
       ELSE /\ \E ioerr \in BOOLEAN : cl' = [cl EXCEPT ![c] = AuthOutcome(h, ioerr)]
            /\ auth' = IF Has(auth, FindStringSubmatch(h)[1]) THEN auth
                       ELSE DbPut(auth, FindStringSubmatch(h)[1],
                                  MarshalAccount([ZeroAccount EXCEPT
                                        !.Email = FindStringSubmatch(h)[1]]))
    /\ UNCHANGED <<data, pending, nextUuid, history, act>>

Auth(c, h) ==
    /\ cl[c].pc \in {"idle", "done"}
    /\ IF ~MatchString(h)
       THEN cl' = [cl EXCEPT ![c] =
                Respond(StatusUnauthorized, <<"No valid authorization header provided">>)]
       ELSE \E ioerr \in BOOLEAN : cl' = [cl EXCEPT ![c] = AuthOutcome(h, ioerr)]
    /\ UNCHANGED <<data, auth, pending, nextUuid, history, act>>

\* lines 73-82: InjectBody reads the request body
InjectBody(c, b) ==
    /\ cl[c].pc = "authenticated"
    /\ \E readerr \in BOOLEAN :
        cl' = [cl EXCEPT ![c] =
            IF readerr
            THEN Respond(StatusInternalServerError,
                         <<"An error occured while reading the request body">>)
            ELSE [cl[c] EXCEPT !.pc = "put", !.rb = b]]
    /\ UNCHANGED <<data, auth, pending, nextUuid, history, act>>

\* a variant that answers 200 with an empty body when no blob is stored
GetDataEmpty(c) ==
    /\ cl[c].pc = "authenticated"
    /\ LET email == cl[c].acc.Email IN
        cl' = [cl EXCEPT ![c] =
            IF ~Has(data, email) THEN Respond(StatusOK, <<>>)
            ELSE Respond(StatusOK, data[email])]
    /\ UNCHANGED <<data, auth, pending, nextUuid, history, act>>

\* lines 297-311
GetData(c) ==
    /\ cl[c].pc = "authenticated"
    /\ LET email == cl[c].acc.Email IN
       \E ioerr \in BOOLEAN :
        cl' = [cl EXCEPT ![c] =
            IF ~ioerr /\ ~Has(data, email)
            THEN Respond(StatusNotFound, <<"Could not find data for">> \o email)
            ELSE IF ioerr
            THEN Respond(StatusInternalServerError, <<"Database error">>)
            ELSE Respond(StatusOK, data[email])]
    /\ UNCHANGED <<data, auth, pending, nextUuid, history, act>>

\* a variant that stores every blob under one key
PutDataOneKey(c) ==
    /\ cl[c].pc = "put"
    /\ LET email == cl[c].acc.Email
           rb == cl[c].rb
       IN  /\ data' = DbPut(data, <<>>, rb)
           /\ lastPut' = DbPut(lastPut, email, rb)
           /\ cl' = [cl EXCEPT ![c] = Respond(StatusOK, rb)]
    /\ UNCHANGED <<auth, pending, nextUuid, issued, activated, savedOk, okTokens, act>>

\* lines 314-322
PutData(c) ==
    /\ cl[c].pc = "put"
    /\ LET email == cl[c].acc.Email
           rb == cl[c].rb
       IN  \E ioerr \in BOOLEAN :
            /\ data' = IF ioerr THEN data ELSE DbPut(data, email, rb)
            /\ lastPut' = IF ioerr THEN lastPut ELSE DbPut(lastPut, email, rb)
            /\ cl' = [cl EXCEPT ![c] =
                    IF ioerr
                    THEN Respond(StatusInternalServerError, <<"Database error">>)
                    ELSE Respond(StatusOK, rb)]
    /\ UNCHANGED <<auth, pending, nextUuid, issued, activated, savedOk, okTokens, act>>

\* ------------------------------------------------------------ specifications
\* POST /auth and GET /activate/:token, with at most n key requests and the
\* first k activation requests running.
ActivationNext(n, k) ==
    \/ /\ nextUuid < 2 * n
       /\ \E f \in Forms : RequestApiKey(f[1], f[2])
    \/ \E p \in 1..k : \E token \in RequestTokens : ActivateLookup(p, token)
    \/ \E p \in 1..k : ActivateFetch(p)
    \/ \E p \in 1..k : ActivateSave(p)
    \/ \E p \in 1..k : ActivateDelete(p)

ClientNext ==
    \/ \E c \in Clients : \E h \in Headers : Auth(c, h)
    \/ \E c \in Clients : \E b \in Blobs : InjectBody(c, b)
    \/ \E c \in Clients : GetData(c)
    \/ \E c \in Clients : PutData(c)

\* every route of main, one activation request at a time
Next == ActivationNext(MaxTokens, 1) \/ ClientNext

Spec == Init /\ [][Next]_vars

\* the activation routes with concurrent activation requests
NextConcurrent == ActivationNext(MaxTokens, MaxActivators)

SpecConcurrent == Init /\ [][NextConcurrent]_vars

\* the activation routes, one activation request at a time, more keys
NextSequential == ActivationNext(MaxSeqTokens, 1)

SpecSequential == Init /\ [][NextSequential]_vars

\* ------------------------------------------------------------ properties
ApiKeysOf(db, e) == IF Has(db, e) THEN UnmarshalAccount(db[e]).ApiKeys ELSE <<>>
KeySet(keys) == {keys[i] : i \in 1..Len(keys)}
DeviceNames(keys) == {keys[i].DeviceName : i \in 1..Len(keys)}
OneKeyPerDevice(keys) ==
    \A i, j \in 1..Len(keys) : i # j => keys[i].DeviceName # keys[j].DeviceName
IssuedKey(t) == UnmarshalApiKey(issued[t])

\* C1: in every reachable state, no account of the auth database holds two
\* api keys with the same device name, whatever the interleaving of
\* RequestApiKey and ActivateApiKey requests.
C1_OneKeyPerDevice ==
    \A e \in DOMAIN auth : OneKeyPerDevice(ApiKeysOf(auth, e))

\* two saved tokens of one email and one device, and the account holds one key
C1_Witness ==
    \E t1, t2 \in savedOk :
        /\ t1 # t2
        /\ IssuedKey(t1).Email = IssuedKey(t2).Email
        /\ IssuedKey(t1).DeviceName = IssuedKey(t2).DeviceName
        /\ Len(ApiKeysOf(auth, IssuedKey(t1).Email)) = 1

\* C2: Auth lets a request through if and only if its header is exactly
\* "ApiKey <email>:<key>", an account is stored for <email> and <key> is the
\* key of one of its api keys; otherwise it answers 401 (a failed read of the
\* auth database, answered 500, is left aside).
HasShape(h, e, k) == e # <<>> /\ k # <<>> /\ h = <<"ApiKey ">> \o e \o <<":">> \o k
ShouldAuthenticate(h) ==
    \E e \in DOMAIN auth :
        \E k \in {x.Key : x \in KeySet(ApiKeysOf(auth, e))} : HasShape(h, e, k)
C2_AuthenticateIff ==
    [][\A c \in Clients : \A h \in Headers :
        (Auth(c, h) /\ cl'[c].status # StatusInternalServerError) =>
            /\ (cl'[c].pc = "authenticated") <=> ShouldAuthenticate(h)
            /\ cl'[c].pc = "done" => cl'[c].status = StatusUnauthorized]_vars

\* C3: when two ActivateApiKey requests for two tokens of the same email and
\* different device names have both saved the account and returned 200, the
\* stored account holds a key for each of the two device names.
C3_NoLostUpdate ==
    \A t1, t2 \in okTokens \cap savedOk :
        (/\ t1 # t2
         /\ IssuedKey(t1).Email = IssuedKey(t2).Email
         /\ IssuedKey(t1).DeviceName # IssuedKey(t2).DeviceName)
        => {IssuedKey(t1).DeviceName, IssuedKey(t2).DeviceName}
                \subseteq DeviceNames(ApiKeysOf(auth, IssuedKey(t1).Email))

\* C4: every api key of a stored account is the api key RequestApiKey
\* returned for a token whose entry an ActivateApiKey request has read, and
\* the key of a request that Auth has let through is the key of such a token.
ActivatedKeys == {IssuedKey(t) : t \in activated}
C4_OnlyActivatedKeys ==
    /\ \A e \in DOMAIN auth : KeySet(ApiKeysOf(auth, e)) \subseteq ActivatedKeys
    /\ \A c \in Clients : cl[c].pc = "authenticated" =>
            \E k \in ActivatedKeys : k.Key = FindStringSubmatch(cl[c].hdr)[2]

\* a request is let through while another token of the same email is still
\* pending and was never read by an activation
C4_Witness ==
    \E c \in Clients : \E t \in DOMAIN pending :
        /\ cl[c].pc = "authenticated"
        /\ t \notin activated
        /\ IssuedKey(t).Email = cl[c].acc.Email

\* C5: GetData and PutData run only for a request that Auth has let through,
\* they read and write the blob of the email of the account Auth resolved,
\* which is the email of the header, and a PutData changes no other blob and
\* neither the auth nor the act database; nothing else changes the data
\* database.
Authenticated(r) ==
    /\ MatchString(r.hdr)
    /\ r.acc.Email = FindStringSubmatch(r.hdr)[1]
    /\ Validate(r.acc, FindStringSubmatch(r.hdr)[2])
DataStep(c) == cl[c].pc = "authenticated" /\ cl'[c].pc = "done"
C5_GatedAndPartitioned ==
    [][/\ \A c \in Clients : cl'[c].pc \in {"authenticated", "put"} => Authenticated(cl'[c])
       /\ \A c \in Clients : (DataStep(c) /\ cl'[c].status = StatusOK) =>
            /\ Has(data, cl[c].acc.Email)
            /\ cl'[c].body = data[cl[c].acc.Email]
       /\ \A c \in Clients : (cl[c].pc = "put" /\ cl'[c].pc = "done") =>
            /\ UNCHANGED <<auth, pending>>
            /\ DOMAIN data' \subseteq DOMAIN data \cup {cl[c].acc.Email}
            /\ \A e \in DOMAIN data : e # cl[c].acc.Email =>
                    Has(data', e) /\ data'[e] = data[e]
       /\ data' # data => \E c \in Clients : cl[c].pc = "put" /\ cl'[c].pc = "done"
      ]_vars

\* a PutData has stored a blob for one email while another email has a blob
C5_Witness ==
    /\ Cardinality(DOMAIN data) = 2
    /\ \E c \in Clients : cl[c].pc = "done" /\ cl[c].status = StatusOK

\* C6: a save of ActivateApiKey that no other request interferes with creates
\* the account with exactly the new key if the email has none, adds the key
\* if the account has no key of that device, and otherwise replaces the key
\* of that device and keeps the keys of all other devices; no other account
\* changes.
SaveStep(p) == act[p].pc = "save" /\ act'[p].pc = "delete" /\ ~act'[p].err
C6_ActivateMerges ==
    [][\A p \in Activators : SaveStep(p) =>
        LET k == act[p].apiKey
            e == k.Email
            old == ApiKeysOf(auth, e)
            new == ApiKeysOf(auth', e)
            others(keys) == {x \in KeySet(keys) : x.DeviceName # k.DeviceName}
        IN  /\ DOMAIN auth' = DOMAIN auth \cup {e}
            /\ \A x \in DOMAIN auth : x # e => auth'[x] = auth[x]
            /\ UnmarshalAccount(auth'[e]).Email = e
            /\ ~Has(auth, e) => new = <<k>>
            /\ (Has(auth, e) /\ k.DeviceName \notin DeviceNames(old)) =>
                    /\ Len(new) = Len(old) + 1
                    /\ KeySet(new) = KeySet(old) \cup {k}
            /\ (Has(auth, e) /\ k.DeviceName \in DeviceNames(old)) =>
                    /\ Len(new) = Len(old)
                    /\ others(new) = others(old)
                    /\ KeySet(new) = others(old) \cup {k}]_vars

\* an account of two keys whose last key replaced the saved key of an earlier
\* token of the same device, next to the key of another device
C6_Witness ==
    \E e \in DOMAIN auth : \E t \in savedOk :
        LET keys == ApiKeysOf(auth, e) IN
        /\ Len(keys) = 2
        /\ IssuedKey(t).Email = e
        /\ IssuedKey(t).DeviceName = keys[2].DeviceName
        /\ IssuedKey(t) # keys[2]

\* C7: ActivateApiKey for a token without entry in the act database answers
\* 404 "Token not valid" and changes none of the three databases.
C7_UnknownToken ==
    [][\A p \in Activators : \A token \in RequestTokens :
        (~Has(pending, token) /\ ActivateLookup(p, token)) =>
            /\ act'[p].pc = "done"
            /\ act'[p].status = StatusNotFound
            /\ act'[p].body = <<"Token not valid">>
            /\ UNCHANGED <<data, auth, pending>>]_vars

\* a 404 answer while all three databases hold entries
C7_Witness ==
    /\ \E p \in Activators : act[p].pc = "done" /\ act[p].status = StatusNotFound
    /\ DOMAIN auth # {} /\ DOMAIN pending # {} /\ DOMAIN data # {}

\* C8: ActivateApiKey answers 200 only if the save of the account succeeded
\* and the entry of the token is deleted; a failed save is answered 500.
C8_StorageErrorReported ==
    [][\A p \in Activators : (act[p].pc = "delete" /\ act'[p].pc = "done") =>
        /\ act[p].err => act'[p].status = StatusInternalServerError
        /\ act'[p].status = StatusOK => ~Has(pending', act[p].token)]_vars

\* C9: when ActivateApiKey runs again for a token whose key an earlier run
\* has saved and the account still holds, its save leaves the account with
\* the same set of api keys, one per device name, and its delete removes the
\* entry of the token.
C9_RetryIdempotent ==
    [][\A p \in Activators :
        /\ (/\ SaveStep(p)
            /\ act[p].token \in savedOk
            /\ act[p].apiKey \in KeySet(ApiKeysOf(auth, act[p].apiKey.Email))) =>
                LET old == ApiKeysOf(auth, act[p].apiKey.Email)
                    new == ApiKeysOf(auth', act[p].apiKey.Email)
                IN  /\ KeySet(new) = KeySet(old)
                    /\ Len(new) = Len(old)
                    /\ OneKeyPerDevice(new)
        /\ (/\ act[p].pc = "delete"
            /\ act'[p].pc = "done"
            /\ act'[p].status = StatusOK) => ~Has(pending', act[p].token)]_vars

\* a second run for a saved token has fetched an account of two keys that
\* holds its key and is about to save
C9_Witness ==
    \E p \in Activators :
        /\ act[p].pc = "save"
        /\ act[p].token \in savedOk
        /\ act[p].apiKey \in KeySet(act[p].acc.ApiKeys)
        /\ Len(act[p].acc.ApiKeys) = 2

\* C10: GetData answers 404 while no PutData for the email has returned 200,
\* and otherwise 200 with the body of the last PutData that returned 200 for
\* the email; PutData answers with the body it stored (answers 500 of a
\* failed database call are left aside).
C10_LastWriteWins ==
    [][\A c \in Clients :
        /\ (DataStep(c) /\ cl'[c].status # StatusInternalServerError) =>
            IF Has(lastPut, cl[c].acc.Email)
            THEN /\ cl'[c].status = StatusOK
                 /\ cl'[c].body = lastPut[cl[c].acc.Email]
            ELSE cl'[c].status = StatusNotFound
        /\ (cl[c].pc = "put" /\ cl'[c].pc = "done" /\ cl'[c].status = StatusOK) =>
            /\ cl'[c].body = cl[c].rb
            /\ data'[cl[c].acc.Email] = cl[c].rb
            /\ lastPut'[cl[c].acc.Email] = cl[c].rb]_vars

\* a 200 answer carrying the stored blob of an email
C10_Witness ==
    \E c \in Clients : \E e \in DOMAIN data :
        /\ cl[c].pc = "done" /\ cl[c].status = StatusOK
        /\ cl[c].body = data[e]
        /\ data[e] = <<"v2">>

\* C11: when RequestApiKey returns, the act database holds, under the token
\* just generated, exactly the api key of the 200 response, and the auth and
\* data databases are unchanged (the mail is sent by a goroutine whose result
\* nothing reads, so it has no part in the step).
C11_PendingHoldsReturnedKey ==
    [][nextUuid' # nextUuid =>
        LET token == uuid(nextUuid') IN
        /\ ~Has(pending, token)
        /\ Has(issued', token)
        /\ Has(pending', token)
        /\ pending'[token] = issued'[token]
        /\ UNCHANGED <<auth, data>>]_vars

\* C12: for two headers that match the pattern, one naming an email without
\* account and one naming an account with a key that is none of its keys,
\* Auth gives the same response, status and message.
C12_NoAccountOracle ==
    \A h1, h2 \in {h \in Headers : MatchString(h)} :
        (/\ ~Has(auth, FindStringSubmatch(h1)[1])
         /\ Has(auth, FindStringSubmatch(h2)[1])
         /\ ~Validate(UnmarshalAccount(auth[FindStringSubmatch(h2)[1]]),
                      FindStringSubmatch(h2)[2]))
        => AuthOutcome(h1, FALSE) = AuthOutcome(h2, FALSE)

\* C13: a token whose ActivateApiKey has returned 200 has no entry in the act
\* database, and an ActivateApiKey that starts for it afterwards answers 404
\* and changes no account.
C13_TokenConsumed ==
    /\ [](\A t \in okTokens : ~Has(pending, t))
    /\ [][\A p \in Activators : \A token \in okTokens :
            ActivateLookup(p, token) =>
                /\ act'[p].pc = "done"
                /\ act'[p].status = StatusNotFound
                /\ UNCHANGED <<auth, pending>>]_vars

\* every token handed out has been activated with success and a later
\* request was answered 404
C13_Witness ==
    /\ okTokens # {}
    /\ okTokens = DOMAIN issued
    /\ \E p \in Activators : act[p].pc = "done" /\ act[p].status = StatusNotFound

\* C14: an account that is stored stays stored; the auth database changes
\* only in the save of an ActivateApiKey, and that save changes no entry
\* other than the one of the email of its api key; RequestApiKey, Auth,
\* InjectBody, GetData and PutData leave the auth database unchanged.
C14_AccountsOnlyMerged ==
    [][/\ DOMAIN auth \subseteq DOMAIN auth'
       /\ auth' # auth =>
            \E p \in Activators :
                /\ act[p].pc = "save" /\ act'[p].pc = "delete"
                /\ DOMAIN auth' = DOMAIN auth \cup {act[p].apiKey.Email}
                /\ \A e \in DOMAIN auth : e # act[p].apiKey.Email => auth'[e] = auth[e]
       /\ (nextUuid' # nextUuid \/ cl' # cl) => auth' = auth]_vars

\* two accounts are stored, a blob is stored and a request was answered
C14_Witness ==
    /\ Cardinality(DOMAIN auth) = 2
    /\ DOMAIN data # {}
    /\ \E c \in Clients : cl[c].pc = "done"

\* C15: a pending entry is never dropped without its key having been saved:
\* in the step that deletes the pending entry of an issued token, the account
\* stored for the email of the token's api key contains that api key.
C15_SavedBeforeDeleted ==
    [][\A t \in DOMAIN pending \cap DOMAIN issued :
            ~Has(pending', t) =>
                IssuedKey(t) \in KeySet(ApiKeysOf(auth, IssuedKey(t).Email))]_vars

\* C16: for each issued token at most one ActivateApiKey request returns
\* success: a request that returns 200 for a token is the first one to do so.
C16_OneSuccessPerToken ==
    [][\A p \in Activators :
            (/\ act[p].pc = "delete"
             /\ act'[p].pc = "done"
             /\ act'[p].status = StatusOK)
            => act[p].token \notin okTokens]_vars

\* C17: pending activations never expire: a pending entry stays in the
\* pending database with an unchanged value in every step, except the delete
\* step of an ActivateApiKey request for that very token; RequestApiKey,
\* the activation of other tokens, Auth, GetData and PutData leave it alone.
C17_PendingPersists ==
    [][\A t \in DOMAIN pending :
            \/ Has(pending', t) /\ pending'[t] = pending[t]
            \/ \E p \in Activators :
                /\ act[p].pc = "delete" /\ act[p].token = t
                /\ act'[p].pc = "done"]_vars

\* one token was activated and its entry deleted, the other entry is still
\* pending, and a blob was stored in between
C17_Witness ==
    /\ okTokens # {}
    /\ DOMAIN pending # {}
    /\ DOMAIN pending \cap okTokens = {}
    /\ DOMAIN data # {}

\* C18: a replaced key is revoked: when an ActivateApiKey request for an api
\* key with email e and device name d returns 200, the stored account of e
\* holds no key for d other than that api key, so no older key of d validates.
C18_ReplacedKeyRevoked ==
    [][\A p \in Activators :
            (/\ act[p].pc = "delete"
             /\ act'[p].pc = "done"
             /\ act'[p].status = StatusOK)
            => \A x \in KeySet(ApiKeysOf(auth', act[p].apiKey.Email)) :
                    x.DeviceName = act[p].apiKey.DeviceName
                        => /\ x = act[p].apiKey
                           /\ \A t \in DOMAIN issued :
                                Validate(UnmarshalAccount(auth'[x.Email]),
                                         IssuedKey(t).Key)
                                => ~(/\ IssuedKey(t).Email = x.Email
                                     /\ IssuedKey(t).DeviceName = x.DeviceName
                                     /\ IssuedKey(t) # act[p].apiKey)]_vars

\* C19: stored accounts are consistent with their storage key: the account
\* stored under email e has Email = e and every api key of its list has
\* email e.
C19_AccountMatchesKey ==
    \A e \in DOMAIN auth :
        /\ UnmarshalAccount(auth[e]).Email = e
        /\ \A x \in KeySet(ApiKeysOf(auth, e)) : x.Email = e

\* two accounts are stored with a key each, one of them for an email that
\* was requested with an invalid byte
C19_Witness ==
    /\ Cardinality(DOMAIN auth) = 2
    /\ Has(auth, Coerce(<<"xFF">>))
    /\ \A e \in DOMAIN auth : Len(ApiKeysOf(auth, e)) = 1

====
